---- MODULE Spec2Model ----
(***************************************************************************)
(* bedrock-workspace CLI: the entry point (bin), the update reconciler     *)
(* (src/updateWorkspace.js), initWorkspace (src/initWorkspace.js) alone    *)
(* and as the reinitialization path, the selective cleaner                 *)
(* (cleanWorkspace.js) and the status report (statusWorkspace.js).         *)
(*                                                                         *)
(* One behaviour is one invocation of the CLI (two of status in a row).    *)
(* Every await of a handler is one action; the answers of the operator     *)
(* and the outcome of every capability call (VCS, filesystem, install)     *)
(* are inputs chosen with \E, or, for status, fixed by env for the run.    *)
(***************************************************************************)
EXTENDS Integers, Sequences, FiniteSets, TLC

\* ---------------------------------------------------------------- bounds
MaxCommit == 2      \* commits on the remote branch are numbered 0..MaxCommit
MaxFiles == 1       \* modified / untracked / staged entries: 0..MaxFiles each
NumProjects == 2    \* project directories under workspace/projects
MaxEntries == 2     \* entries of one directory handed to getDirectorySize
MaxSymlinks == 2    \* symbolic links the system follows in one path (40 on Linux)
MaxTime == 2        \* modification times are 0..MaxTime
MaxLog == 7         \* commits on the remote branch when the log is looked at on its own

VARIABLES
  args,         \* the command line: [command, flags]
  cmd,          \* the handler the entry point selected ("none" before)
  pc,           \* position in the entry point or in the handler
  result,       \* "running" | "returned" | "thrown"
  exitCode,     \* exit status of the process (-1 while it runs)
  out,          \* the set of reports printed so far
  calls,        \* the capability calls and decisions so far, in order
  root,         \* workspace root: "absent" | "orig" | "partial" | "fresh"
  backup,       \* workspace_backup_<ts>: "none" | "partial" | "full"
  gitExists,    \* workspace/.git exists
  pkgJson,      \* workspace/package.json exists
  tree,         \* working tree: [modified, untracked, staged] entry counts
  head,         \* local HEAD: [n |-> remote commit it contains, l |-> local commits on top]
  originMain,   \* remote-tracking ref origin/main
  remoteHead,   \* the branch main of the remote repository
  stash,        \* the stash list, newest first
  choice,       \* answer to 'How would you like to proceed?' ("none" before)
  start,        \* the repository and the filesystem as they were at the start
  fs,           \* the cleanable paths: path -> Absent or a node
  catalog,      \* existingItems: sequence of [name, size]
  selected,     \* itemsToClean
  idx,          \* loop position in itemsToClean
  totalCleaned, \* bytes reported as freed
  itemsCleaned, \* categories counted as cleaned
  attempted,    \* paths on which fs.remove was invoked
  allItems,     \* cleanableItems: the five categories as measured
  env,          \* what the VCS meets in this run: "ok" or the failing part
  snap,         \* the snapshot status has reported so far
  prev,         \* the snapshot of the preceding status run (<<>> if none)
  dir,          \* a directory handed to getDirectorySize on its own
  faults,       \* the filesystem calls that throw during that measurement
  sized,        \* its outcome: [done, size]
  mtime,        \* modification times: [lock, manifest]
  pkgReadable,  \* workspace/package.json parses as JSON
  current,      \* the branch that is checked out (branch.current)
  behindCurrent \* on a branch other than main: the commits of
                \* origin/<current> that HEAD lacks

disk == <<root, backup, gitExists, pkgJson>>
repo == <<tree, head, originMain, remoteHead, stash>>
cln == <<fs, catalog, selected, idx, totalCleaned, itemsCleaned, attempted, allItems>>
st == <<env, snap, prev>>
msr == <<dir, faults, sized>>
dep == <<mtime, pkgReadable>>
br == <<current, behindCurrent>>
vars == <<args, cmd, pc, result, exitCode, out, calls, root, backup, gitExists,
          pkgJson, tree, head, originMain, remoteHead, stash, choice, start, fs,
          catalog, selected, idx, totalCleaned, itemsCleaned, attempted, allItems,
          env, snap, prev, dir, faults, sized, mtime, pkgReadable,
          current, behindCurrent>>

\* ------------------------------------------------------------ repository
Commit(n, l) == [n |-> n, l |-> l]

CleanTree == [modified |-> 0, untracked |-> 0, staged |-> 0]

\* simple-git StatusResult.isClean(): no entry of any kind
isClean(t) == t.modified = 0 /\ t.untracked = 0 /\ t.staged = 0

\* git stash: suspends staged and modified entries; untracked files stay, and
\* with nothing but untracked files no stash entry is made
StashTree(t) == [t EXCEPT !.modified = 0, !.staged = 0]
StashList(t, s) ==
  IF t.modified = 0 /\ t.staged = 0 THEN s
  ELSE <<[modified |-> t.modified, staged |-> t.staged]>> \o s

\* git reset --hard: tracked files back to HEAD; HEAD itself does not move
ResetTree(t) == [t EXCEPT !.modified = 0, !.staged = 0]

\* git clean -f -d: untracked files and directories removed
CleanUntracked(t) == [t EXCEPT !.untracked = 0]

\* git pull origin main: HEAD takes in the remote branch (fast-forward when
\* there is no local commit, a merge on top otherwise)
PullHead(h, r) == Commit(IF h.n > r THEN h.n ELSE r, h.l)

\* git log HEAD..origin/main: commits of origin/main that HEAD lacks
Pending(h, o) == IF o > h.n THEN o - h.n ELSE 0

\* git.log(['HEAD..origin/main']).all: those commits, the newest first
log(h, o) == [i \in 1..Pending(h, o) |-> o - i + 1]

\* log.all.slice(0, 5)
ShownFirst == 5

slice_Whole(all) == all

slice(all) == SubSeq(all, 1, IF Len(all) < ShownFirst THEN Len(all) ELSE ShownFirst)

\* 'Changes to be applied:', one line for each of the first commits of the
\* log, and the number of the others when there are others
changesReport(all) ==
  {<<"changes_to_be_applied">>}
    \cup {<<"commit", i, slice(all)[i]>> : i \in 1..Len(slice(all))}
    \cup (IF Len(all) > ShownFirst
            THEN {<<"more_commits", Len(all) - ShownFirst>>} ELSE {})

Say(m) == out' = out \cup {<<m>>}
SayAbout(m, n) == out' = out \cup {<<m, n>>}
Call(c) == calls' = Append(calls, c)

\* the entry point around the handler: a handler that returns lets the
\* process end with status 0, an error that leaves it is caught, printed,
\* and answered with process.exit(1)
ExitStatus_AlwaysZero(outcome) == 0

ExitStatus(outcome) == IF outcome = "thrown" THEN 1 ELSE 0

\* console.error('Error:', error.message) of the entry point
Uncaught(msg) == {<<"error", msg>>}

Return == pc' = "done" /\ result' = "returned" /\ exitCode' = ExitStatus("returned")
Throw == pc' = "done" /\ result' = "thrown" /\ exitCode' = ExitStatus("thrown")

\* the calls a failing network operation amounts to: it is awaited once,
\* in no loop, and its error goes straight to the enclosing catch
FailedAttempts_RetriedOnce(c) == <<c, c>>

FailedAttempts(c) == <<c>>

\* error.message.includes('CONFLICT')
IsConflict_Always(msg) == TRUE

IsConflict(msg) == msg = "CONFLICT"

\* catch of updateWorkspace: report, flag a conflict, rethrow
UpdCatch(msg) ==
  /\ out' = out \cup {<<"update_failed">>} \cup Uncaught(msg)
                \cup (IF IsConflict(msg) THEN {<<"conflict">>} ELSE {})
  /\ Throw

ErrMsgs == {"generic", "CONFLICT"}

\* fs.existsSync(workspaceDir), the first check of every handler
workspaceExists_Assumed(r) == TRUE

workspaceExists(r) == r # "absent"

\* --------------------------------------------------------------- update
\* where the answer to 'How would you like to proceed?' leads
AfterChoice_CancelFallsThrough(continueUpdate) ==
  IF continueUpdate = "stash" THEN "upd_stash"
  ELSE IF continueUpdate = "discard" THEN "upd_reset"
  ELSE "upd_fetch"

AfterChoice_DiscardByDefault(continueUpdate) ==
  IF continueUpdate = "cancel" THEN "done" ELSE "upd_reset"

AfterChoice(continueUpdate) ==
  IF continueUpdate = "cancel" THEN "done"
  ELSE IF continueUpdate = "stash" THEN "upd_stash"
  ELSE IF continueUpdate = "discard" THEN "upd_reset"
  ELSE "upd_fetch"

\* where the comparison of local HEAD with origin/main leads
AfterCompare_NoConfirmation(localCommit, remoteCommit) ==
  IF localCommit = remoteCommit THEN "done" ELSE "upd_pull"

AfterCompare(localCommit, remoteCommit) ==
  IF localCommit = remoteCommit THEN "done" ELSE "upd_confirm"

\* where the answer to 'Do you want to apply these updates?' leads
AfterConfirm_AnswerIgnored(confirmUpdate) == "upd_pull"

AfterConfirm(confirmUpdate) == IF confirmUpdate THEN "upd_pull" ELSE "done"

UpdStart ==
  /\ cmd = "update" /\ pc = "upd_start"
  /\ IF ~workspaceExists(root)
       THEN Say("no_workspace") /\ Return
       ELSE IF ~gitExists
         THEN Say("not_a_repository") /\ pc' = "upd_reinit_prompt" /\ UNCHANGED <<result, exitCode>>
         ELSE pc' = "upd_status" /\ UNCHANGED <<out, result, exitCode>>
  /\ UNCHANGED <<msr, dep, br, args, cmd, st, calls, disk, repo, choice, start, cln>>

\* where the answer to 'Would you like to reinitialize the workspace to
\* enable updates?' leads
AfterReinitPrompt_AnswerIgnored(reinitialize) == "reinit_copy"

AfterReinitPrompt(reinitialize) == IF reinitialize THEN "reinit_copy" ELSE "done"

UpdReinitPrompt ==
  /\ pc = "upd_reinit_prompt"
  /\ \E reinitialize \in BOOLEAN :
       /\ calls' = (IF reinitialize THEN Append(calls, "confirm_reinit") ELSE calls)
       /\ pc' = AfterReinitPrompt(reinitialize)
       /\ IF pc' = "done"
            THEN /\ Say("cancelled_unchanged")
                 /\ result' = "returned" /\ exitCode' = ExitStatus("returned")
            ELSE UNCHANGED <<out, result, exitCode>>
  /\ UNCHANGED <<msr, dep, br, args, cmd, st, disk, repo, choice, start, cln>>

UpdStatus ==
  /\ pc = "upd_status"
  /\ \/ \E msg \in ErrMsgs :
          /\ Call("status") /\ UpdCatch(msg) /\ UNCHANGED choice
     \/ /\ isClean(tree)
        /\ Call("status") /\ pc' = "upd_fetch"
        /\ UNCHANGED <<out, result, exitCode, choice>>
     \/ /\ ~isClean(tree)
        /\ \E continueUpdate \in {"stash", "discard", "cancel"} :
             /\ choice' = continueUpdate
             /\ calls' = calls \o <<"status", "choose">>
             /\ pc' = AfterChoice(continueUpdate)
             /\ IF pc' = "done"
                  THEN out' = out \cup {<<"uncommitted_changes">>, <<"cancelled">>}
                       /\ result' = "returned" /\ exitCode' = ExitStatus("returned")
                  ELSE /\ out' = out \cup {<<"uncommitted_changes">>,
                                            IF continueUpdate = "stash"
                                              THEN <<"stashing_changes">>
                                              ELSE <<"discarding_changes">>}
                       /\ UNCHANGED <<result, exitCode>>
  /\ UNCHANGED <<msr, dep, br, args, cmd, st, disk, repo, start, cln>>

UpdStash ==
  /\ pc = "upd_stash"
  /\ Call("stash")
  /\ \/ \E msg \in ErrMsgs : UpdCatch(msg) /\ UNCHANGED <<tree, stash>>
     \/ /\ tree' = StashTree(tree)
        /\ stash' = StashList(tree, stash)
        /\ pc' = "upd_fetch"
        /\ UNCHANGED <<out, result, exitCode>>
  /\ UNCHANGED <<msr, dep, br, args, cmd, st, disk, head, originMain, remoteHead, choice, start, cln>>

UpdReset ==
  /\ pc = "upd_reset"
  /\ Call("reset")
  /\ \/ \E msg \in ErrMsgs : UpdCatch(msg) /\ UNCHANGED tree
     \/ /\ tree' = ResetTree(tree)
        /\ pc' = "upd_clean"
        /\ UNCHANGED <<out, result, exitCode>>
  /\ UNCHANGED <<msr, dep, br, args, cmd, st, disk, head, originMain, remoteHead, stash, choice, start, cln>>

UpdClean ==
  /\ pc = "upd_clean"
  /\ Call("clean")
  /\ \/ \E msg \in ErrMsgs : UpdCatch(msg) /\ UNCHANGED tree
     \/ /\ tree' = CleanUntracked(tree)
        /\ pc' = "upd_fetch"
        /\ UNCHANGED <<out, result, exitCode>>
  /\ UNCHANGED <<msr, dep, br, args, cmd, st, disk, head, originMain, remoteHead, stash, choice, start, cln>>

UpdFetch ==
  /\ pc = "upd_fetch"
  /\ \/ \E msg \in ErrMsgs :
          /\ calls' = calls \o FailedAttempts("fetch")
          /\ UpdCatch(msg) /\ UNCHANGED originMain
     \/ /\ calls' = calls \o <<"fetch", "fetch_ok">>
        /\ originMain' = remoteHead
        /\ pc' = "upd_compare"
        /\ UNCHANGED <<out, result, exitCode>>
  /\ UNCHANGED <<msr, dep, br, args, cmd, st, disk, tree, head, remoteHead, stash, choice, start, cln>>

UpdCompare ==
  /\ pc = "upd_compare"
  /\ \/ \E msg \in ErrMsgs : Call("revparse") /\ UpdCatch(msg)
     \/ LET localCommit == head
            remoteCommit == Commit(originMain, 0)
        IN /\ pc' = AfterCompare(localCommit, remoteCommit)
           /\ calls' = calls \o (IF localCommit = remoteCommit
                                   THEN <<"revparse">> ELSE <<"revparse", "differs">>)
           /\ IF pc' = "done"
                THEN Say("up_to_date") /\ result' = "returned" /\ exitCode' = ExitStatus("returned")
                ELSE UNCHANGED <<out, result, exitCode>>
  /\ UNCHANGED <<msr, dep, br, args, cmd, st, disk, repo, choice, start, cln>>

UpdConfirm ==
  /\ pc = "upd_confirm"
  /\ \/ \E msg \in ErrMsgs : Call("log") /\ UpdCatch(msg)
     \/ \E confirmUpdate \in BOOLEAN :
          /\ calls' = calls \o <<"log", IF confirmUpdate THEN "confirm_yes" ELSE "confirm_no">>
          /\ pc' = AfterConfirm(confirmUpdate)
          /\ IF pc' = "done"
               THEN /\ out' = out \cup changesReport(log(head, originMain))
                                  \cup {<<"cancelled">>}
                    /\ result' = "returned" /\ exitCode' = ExitStatus("returned")
               ELSE /\ out' = out \cup changesReport(log(head, originMain))
                    /\ UNCHANGED <<result, exitCode>>
  /\ UNCHANGED <<msr, dep, br, args, cmd, st, disk, repo, choice, start, cln>>

UpdPull ==
  /\ pc = "upd_pull"
  /\ \/ \E msg \in ErrMsgs :
          /\ calls' = calls \o FailedAttempts("pull")
          /\ UpdCatch(msg) /\ UNCHANGED <<head, originMain>>
     \/ /\ Call("pull")
        /\ head' = PullHead(head, remoteHead)
        /\ originMain' = remoteHead
        /\ pc' = "upd_deps"
        /\ UNCHANGED <<out, result, exitCode>>
  /\ UNCHANGED <<msr, dep, br, args, cmd, st, disk, tree, remoteHead, stash, choice, start, cln>>

\* how the npm install of update ends for updateWorkspace: its own
\* try/catch turns a failure into a warning
AfterInstall_FailureEscapes(ok) == IF ok THEN "returned" ELSE "thrown"

AfterInstall(ok) == "returned"

UpdDeps ==
  /\ pc = "upd_deps"
  /\ IF pkgJson
       THEN \E updateDependencies \in BOOLEAN :
              IF updateDependencies
                THEN /\ Call("install")
                     /\ \E ok \in BOOLEAN :
                          IF AfterInstall(ok) = "thrown"
                            THEN UpdCatch("generic")
                            ELSE /\ out' = out \cup {<<"updated">>} \cup
                                      (IF ok THEN {<<"deps_updated">>}
                                       ELSE {<<"deps_warning">>, <<"npm_install_hint">>})
                                 /\ Return
                ELSE UNCHANGED calls /\ Say("updated") /\ Return
       ELSE UNCHANGED calls /\ Say("updated") /\ Return
  /\ UNCHANGED <<msr, dep, br, args, cmd, st, disk, repo, choice, start, cln>>

\* ---------------------------------------------------- reinitialization
\* catch of reinitializeWorkspace: report and rethrow; the call is made
\* outside updateWorkspace's own try, so the error reaches the entry point
ReinitCatch(msg) == out' = out \cup {<<"reinit_failed">>} \cup Uncaught(msg) /\ Throw

\* await fs.copy(...) returns only for a complete copy; it throws otherwise
CopyCompleted_NotAwaited(copied) == TRUE

CopyCompleted(copied) == copied = "full"

\* fs.copy(workspaceDir, backupDir)
ReinitCopy ==
  /\ pc = "reinit_copy"
  /\ Call("copy")
  /\ \E copied \in {"full", "partial", "none"} :
       /\ backup' = copied
       /\ IF CopyCompleted(copied)
            THEN pc' = "reinit_remove" /\ UNCHANGED <<out, result, exitCode>>
            ELSE ReinitCatch("copy_error")
  /\ UNCHANGED <<msr, dep, br, args, cmd, st, root, gitExists, pkgJson, repo, choice, start, cln>>

\* fs.remove(workspaceDir)
ReinitRemove ==
  /\ pc = "reinit_remove"
  /\ Call("remove_root")
  /\ \/ /\ root' = "absent" /\ gitExists' = FALSE /\ pkgJson' = FALSE
        /\ pc' = "reinit_init"
        /\ UNCHANGED <<out, result, exitCode>>
     \/ /\ root' \in {root, "partial"}
        /\ UNCHANGED <<gitExists, pkgJson>>
        /\ ReinitCatch("remove_error")
  /\ UNCHANGED <<msr, dep, br, args, cmd, st, backup, repo, choice, start, cln>>

\* const { initWorkspace } = await import(...); await initWorkspace()
ReinitInit ==
  /\ pc = "reinit_init"
  /\ Call("init")
  /\ pc' = "init_start"
  /\ UNCHANGED <<msr, dep, br, args, cmd, st, result, exitCode, out, disk, repo, choice, start, cln>>

\* an error leaving initWorkspace: to reinitializeWorkspace's catch when it
\* was called from there
InitThrow(msgs, msg) ==
  /\ out' = out \cup msgs \cup Uncaught(msg)
                \cup (IF cmd = "update" THEN {<<"reinit_failed">>} ELSE {})
  /\ Throw

\* initWorkspace, up to the template download: an existing root is removed
\* only when the operator confirms the overwrite
\* whether fs.remove(workspaceDir) follows the answer to 'Do you want to
\* overwrite the existing workspace?'
RemovesExisting_AnswerIgnored(overwrite) == TRUE

RemovesExisting(overwrite) == overwrite

InitStart ==
  /\ pc = "init_start"
  /\ IF ~workspaceExists(root)
       THEN /\ pc' = "init_clone"
            /\ UNCHANGED <<result, exitCode, out, calls, root, gitExists, pkgJson>>
       ELSE \E overwrite \in BOOLEAN :
              IF ~RemovesExisting(overwrite)
                THEN /\ Say("operation_cancelled") /\ Return
                     /\ UNCHANGED <<calls, root, gitExists, pkgJson>>
                ELSE /\ calls' = calls \o (IF overwrite THEN <<"confirm_overwrite">>
                                                      ELSE <<>>)
                                       \o <<"remove_root">>
                     /\ \/ /\ root' = "absent" /\ gitExists' = FALSE /\ pkgJson' = FALSE
                           /\ pc' = "init_clone"
                           /\ UNCHANGED <<result, exitCode, out>>
                        \/ /\ root' \in {root, "partial"}
                           /\ UNCHANGED <<gitExists, pkgJson>>
                           /\ InitThrow({}, "remove_error")
  /\ UNCHANGED <<msr, dep, br, args, cmd, st, backup, repo, choice, start, cln>>

\* the error that leaves the catch of initWorkspace: 'throw error', after
\* the cleanup and whatever the cleanup met
Propagated_CleanupErrorWins(error, cleanupError) == cleanupError

Propagated(error, cleanupError) == error

\* catch of initWorkspace: report, remove the root if it exists (a failing
\* removal is reported and swallowed), rethrow
InitCatch(said, error, left) ==
  IF left = "absent"
    THEN /\ root' = "absent" /\ gitExists' = FALSE /\ pkgJson' = FALSE
         /\ InitThrow(said \cup {<<"init_failed">>}, error)
    ELSE \E removed \in BOOLEAN :
           IF removed
             THEN /\ root' = "absent" /\ gitExists' = FALSE /\ pkgJson' = FALSE
                  /\ InitThrow(said \cup {<<"init_failed">>}, error)
             ELSE /\ root' = "partial" /\ UNCHANGED <<gitExists, pkgJson>>
                  /\ InitThrow(said \cup {<<"init_failed">>, <<"cleanup_failed">>},
                               Propagated(error, "cleanup_error"))

\* degit clone of the template (no .git folder); a failing clone may leave
\* part of the root behind
InitClone ==
  /\ pc = "init_clone"
  /\ \/ /\ Call("clone")
        /\ root' = "fresh" /\ pkgJson' = TRUE /\ gitExists' = FALSE
        /\ pc' = "init_rest"
        /\ UNCHANGED <<out, result, exitCode>>
     \/ /\ calls' = calls \o FailedAttempts("clone")
        /\ \E left \in {"absent", "partial"} : InitCatch({}, "clone_error", left)
  /\ UNCHANGED <<msr, dep, br, args, cmd, st, backup, repo, choice, start, cln>>

\* openInVSCode: execSync('code -r ...') sits in a try whose catch reports
AfterLaunch_FailureEscapes(ok) == IF ok THEN "returned" ELSE "thrown"

AfterLaunch(ok) == "returned"

\* the rest of initWorkspace: the install, the download of the libraries
\* (setupLibraries) and the editor launch each recover locally; a prompt
\* that rejects is caught by the catch of initWorkspace; then the last
\* lines of reinitializeWorkspace
InitRest ==
  /\ pc = "init_rest"
  /\ \E installOk, libsOk, launchOk \in BOOLEAN :
     \E downloadLibraries \in {"yes", "no", "rejected"} :
     \E openWorkspace \in {"yes", "no", "rejected"} :
       LET cloned == downloadLibraries = "yes"
           launched == downloadLibraries # "rejected" /\ openWorkspace = "yes"
           escaped == launched /\ AfterLaunch(launchOk) = "thrown"
           said == {<<"initialized">>}
                     \cup (IF installOk THEN {}
                           ELSE {<<"deps_warning">>, <<"npm_install_hint">>})
                     \cup (IF cloned /\ ~libsOk
                             THEN {<<"libs_warning">>, <<"libs_manual_hint">>} ELSE {})
                     \cup (IF cloned /\ libsOk THEN {<<"libs_downloaded">>} ELSE {})
                     \cup (IF launched /\ ~launchOk /\ ~escaped
                             THEN {<<"launch_failed">>, <<"open_manually_hint">>}
                             ELSE {})
       IN /\ calls' = calls \o <<"init_install">>
                         \o (IF ~cloned THEN <<>>
                             ELSE IF libsOk THEN <<"libs_clone">>
                             ELSE FailedAttempts("libs_clone"))
                         \o (IF launched THEN <<"launch">> ELSE <<>>)
          /\ IF downloadLibraries # "rejected" /\ openWorkspace # "rejected"
                 /\ ~escaped
               THEN /\ out' = out \cup said \cup {<<"next_steps">>}
                                 \cup (IF cmd = "update" THEN {<<"reinitialized">>} ELSE {})
                    /\ Return
                    /\ UNCHANGED <<root, gitExists, pkgJson>>
               ELSE InitCatch(said, IF escaped THEN "launch_error" ELSE "prompt_error",
                              root)
  /\ UNCHANGED <<msr, dep, br, args, cmd, st, backup, repo, choice, start, cln>>

\* ---------------------------------------------------------------- clean
Projects == 1..NumProjects

Absent == [t |-> "none", s |-> 0, c |-> <<>>, js |-> FALSE]
File(n) == [t |-> "file", s |-> n, c |-> <<>>, js |-> FALSE]
Dir(children) == [t |-> "dir", s |-> 0, c |-> children, js |-> FALSE]
\* an entry whose name ends with .js
Js(node) == [node EXCEPT !.js = TRUE]

NodeModules == <<"node_modules", 0>>
LockFile == <<"package-lock.json", 0>>
VsCode == <<".vscode", 0>>
ProjectsDir == <<"projects", 0>>
ScriptsDir(p) == <<"scripts", p>>
DistDir(p) == <<"dist", p>>

DirectPaths == {NodeModules, LockFile, VsCode}
PatternPathsOf(p) == <<ScriptsDir(p), DistDir(p)>>
Paths == DirectPaths \cup {ScriptsDir(p) : p \in Projects} \cup {DistDir(p) : p \in Projects}

RECURSIVE Pow2(_)
Pow2(k) == IF k = 0 THEN 1 ELSE 2 * Pow2(k - 1)

\* every path holds its own number of bytes, so that a sum of sizes tells
\* which paths were counted
Bytes(path) ==
  IF path = NodeModules THEN 1
  ELSE IF path = LockFile THEN 2
  ELSE IF path = VsCode THEN 4
  ELSE IF path[1] = "scripts" THEN Pow2(2 * path[2] + 1)
  ELSE Pow2(2 * path[2] + 2)

\* what a path holds when it exists
Present(path) ==
  IF path = LockFile THEN File(Bytes(path))
  ELSE IF path = NodeModules THEN Dir(<<Dir(<<File(Bytes(path))>>)>>)
  ELSE IF path[1] = "scripts" THEN Dir(<<Js(File(Bytes(path)))>>)
  ELSE Dir(<<File(Bytes(path))>>)

exists(f, path) == f[path].t # "none"

\* a filesystem call that throws: [op |-> "readdir" | "stat" | "list", at |-> path, sub |-> place below it]
Fault(op, path, sub) == [op |-> op, at |-> path, sub |-> sub]

\* a symbolic link to the directory up levels above the entry (1: the
\* directory that holds the link)
Link(up) == [t |-> "link", s |-> up, c |-> <<>>, js |-> FALSE]

\* the directories from the measured one down to dirNode itself
Stack(anc, dirNode) == Append(anc, dirNode)

\* statSync(itemPath) throws: an injected error, a link to nothing, or a
\* path with more links than the system follows (ELOOP)
StatThrows(node, path, sub, bad, anc, hops) ==
  \E i \in 1..Len(node.c) :
    \/ Fault("stat", path, Append(sub, i)) \in bad
    \/ /\ node.c[i].t = "link"
       /\ (node.c[i].s > Len(Stack(anc, node)) \/ hops + 1 > MaxSymlinks)

RECURSIVE SumEntriesAt(_, _, _, _, _, _, _)
RECURSIVE getDirectorySizeAt(_, _, _, _, _, _)

\* the loop of getDirectorySize over the entries i..end of a directory;
\* statSync follows a link, so a link to a directory is entered like one
SumEntriesAt(node, path, sub, bad, anc, hops, i) ==
  IF i > Len(node.c) THEN 0
  ELSE (IF node.c[i].t = "dir"
          THEN getDirectorySizeAt(node.c[i], path, Append(sub, i), bad,
                                  Stack(anc, node), hops)
        ELSE IF node.c[i].t = "link"
          THEN LET stack == Stack(anc, node)
                   at == Len(stack) - node.c[i].s + 1
               IN getDirectorySizeAt(stack[at], path, Append(sub, i), bad,
                                     SubSeq(stack, 1, at - 1), hops + 1)
        ELSE node.c[i].s)
       + SumEntriesAt(node, path, sub, bad, anc, hops, i + 1)

\* getDirectorySize: 0 for a missing path; any error of readdirSync or of a
\* statSync of an entry is caught and the whole call returns 0.  anc are the
\* directories above node, hops the links in the path that led to it.
getDirectorySizeAt(node, path, sub, bad, anc, hops) ==
  IF node.t = "none" THEN 0
  ELSE IF node.t = "file" \/ Fault("readdir", path, sub) \in bad THEN 0
  ELSE IF StatThrows(node, path, sub, bad, anc, hops) THEN 0
  ELSE SumEntriesAt(node, path, sub, bad, anc, hops, 1)

\* getDirectorySize(dirPath) called on a path without links
getDirectorySize(node, path, sub, bad) ==
  getDirectorySizeAt(node, path, sub, bad, <<>>, 0)

\* getFileSize: 0 for a missing path or when statSync throws
getFileSize(node, path, bad) ==
  IF node.t = "none" THEN 0
  ELSE IF Fault("stat", path, <<>>) \in bad THEN 0
  ELSE node.s

RECURSIVE SumProjects(_, _, _)
SumProjects(f, bad, p) ==
  IF p > NumProjects THEN 0
  ELSE getDirectorySize(f[ScriptsDir(p)], ScriptsDir(p), <<>>, bad)
       + getDirectorySize(f[DistDir(p)], DistDir(p), <<>>, bad)
       + SumProjects(f, bad, p + 1)

\* getBuildOutputSize: an error listing the projects is ignored (total 0)
getBuildOutputSize(f, bad) ==
  IF Fault("list", ProjectsDir, <<>>) \in bad THEN 0
  ELSE SumProjects(f, bad, 1)

\* getTempFilesSize
getTempFilesSize == 0

Item(name, path, size, isPattern) ==
  [name |-> name, path |-> path, size |-> size, isPattern |-> isPattern]

cleanableItems(f, bad) ==
  << Item("Node modules", NodeModules,
          getDirectorySize(f[NodeModules], NodeModules, <<>>, bad), FALSE),
     Item("Package lock file", LockFile, getFileSize(f[LockFile], LockFile, bad), FALSE),
     Item("Build outputs", ProjectsDir, getBuildOutputSize(f, bad), TRUE),
     Item("Temporary files", <<"workspace", 0>>, getTempFilesSize, TRUE),
     Item("VS Code settings", VsCode,
          getDirectorySize(f[VsCode], VsCode, <<>>, bad), FALSE) >>

\* the filter of existingItems
keepItem_SizeOnly(f, item) == item.size > 0

keepItem(f, item) ==
  IF item.isPattern THEN item.size > 0 ELSE exists(f, item.path)

existingItems(f, list) == SelectSeq(list, LAMBDA item : keepItem(f, item))

\* the filesystem errors one measurement may meet: none, or one
FaultPoints ==
  {Fault("readdir", ScriptsDir(p), <<>>) : p \in Projects}
    \cup {Fault("stat", NodeModules, <<1>>), Fault("list", ProjectsDir, <<>>)}
FaultSets == {{}} \cup {{x} : x \in FaultPoints}

RECURSIVE BuildOutputPaths(_)
\* scripts and dist of every project, in the order the loop visits them
BuildOutputPaths(p) ==
  IF p > NumProjects THEN <<>> ELSE PatternPathsOf(p) \o BuildOutputPaths(p + 1)

RECURSIVE cleanSubpaths(_, _, _, _, _, _)
\* the loop body of cleanPatternItem over the subpaths i..: measure, remove,
\* add; a throwing fs.remove leaves the loop and the function
cleanSubpaths(f, i, cleaned, att, bad, rmBad) ==
  IF i > Len(BuildOutputPaths(1))
    THEN [fs |-> f, cleaned |-> cleaned, attempted |-> att, threw |-> FALSE]
    ELSE LET path == BuildOutputPaths(1)[i] IN
         IF ~exists(f, path)
           THEN cleanSubpaths(f, i + 1, cleaned, att, bad, rmBad)
           ELSE LET size == getDirectorySize(f[path], path, <<>>, bad) IN
                IF path \in rmBad
                  THEN [fs |-> f, cleaned |-> cleaned,
                        attempted |-> att \cup {path}, threw |-> TRUE]
                  ELSE cleanSubpaths([f EXCEPT ![path] = Absent], i + 1,
                                     cleaned + size, att \cup {path}, bad, rmBad)

\* the paths an item's removal touches
ItemPaths(item) ==
  IF item.isPattern
    THEN {BuildOutputPaths(1)[i] : i \in 1..Len(BuildOutputPaths(1))}
    ELSE {item.path}

\* what may go wrong while one item is cleaned: nothing, one measurement
\* that meets an error, or one fs.remove that throws
Mishaps(item) ==
  {[bad |-> b, rmBad |-> {}] : b \in FaultSets}
    \cup {[bad |-> {}, rmBad |-> {path}] : path \in ItemPaths(item)}

\* cleanPatternItem: [fs, cleaned, attempted, threw]
cleanPatternItem(item, f, att, bad, rmBad) ==
  IF item.name = "Build outputs"
    THEN IF Fault("list", ProjectsDir, <<>>) \in bad
           THEN [fs |-> f, cleaned |-> 0, attempted |-> att, threw |-> TRUE]
           ELSE cleanSubpaths(f, 1, 0, att, bad, rmBad)
    ELSE [fs |-> f, cleaned |-> 0, attempted |-> att, threw |-> FALSE]

\* cleanWorkspace up to the first prompt: the catalog
ClnStart ==
  /\ cmd = "clean" /\ pc = "cln_start"
  /\ IF ~workspaceExists(root)
       THEN Say("no_workspace") /\ Return /\ UNCHANGED <<catalog, allItems>>
       ELSE \E bad \in FaultSets :
              /\ allItems' = cleanableItems(fs, bad)
              /\ catalog' = existingItems(fs, allItems')
              /\ IF catalog' = <<>>
                   THEN Say("already_clean") /\ Return
                   ELSE pc' = "cln_select" /\ UNCHANGED <<out, result, exitCode>>
  /\ UNCHANGED <<msr, dep, br, args, cmd, st, calls, disk, repo, choice, start, fs, selected,
                 idx, totalCleaned, itemsCleaned, attempted>>

\* the checkbox prompt: the names picked, in the order of the choices
ClnSelect ==
  /\ pc = "cln_select"
  /\ \E picked \in SUBSET {catalog[i].name : i \in 1..Len(catalog)} :
       LET names == [i \in 1..Len(catalog) |-> catalog[i].name]
           itemsToClean == SelectSeq(names, LAMBDA n : n \in picked)
       IN /\ selected' = itemsToClean
          /\ IF Len(itemsToClean) = 0
               THEN Say("none_selected") /\ Return
               ELSE pc' = "cln_confirm" /\ UNCHANGED <<out, result, exitCode>>
  /\ UNCHANGED <<msr, dep, br, args, cmd, st, calls, disk, repo, choice, start, fs, catalog,
                 idx, totalCleaned, itemsCleaned, attempted, allItems>>

\* the final confirmation
ClnConfirm ==
  /\ pc = "cln_confirm"
  /\ \E confirmClean \in BOOLEAN :
       IF confirmClean
         THEN pc' = "cln_loop" /\ UNCHANGED <<out, result, exitCode>>
         ELSE Say("cleaning_cancelled") /\ Return
  /\ UNCHANGED <<msr, dep, br, args, cmd, st, calls, disk, repo, choice, start, cln>>

\* the names the cleaning loop goes over
LoopItems_WholeCatalog(itemsToClean, items) == [i \in 1..Len(items) |-> items[i].name]

LoopItems(itemsToClean, items) == itemsToClean

\* what a direct category whose fs.remove threw adds to totalCleaned: the
\* addition of item.size comes after the awaited removal
AddedOnFailure_SizeAddedFirst(size) == size

AddedOnFailure(size) == 0

\* one iteration of the loop over itemsToClean
ClnItem ==
  /\ pc = "cln_loop" /\ idx <= Len(LoopItems(selected, catalog))
  /\ idx' = idx + 1
  /\ LET found == SelectSeq(catalog, LAMBDA i : i.name = LoopItems(selected, catalog)[idx]) IN
     IF found = <<>>
       THEN UNCHANGED <<out, fs, totalCleaned, itemsCleaned, attempted>>
       ELSE LET item == found[1] IN
            \E m \in Mishaps(item) :
              IF item.isPattern
                THEN LET r == cleanPatternItem(item, fs, attempted, m.bad, m.rmBad) IN
                     /\ fs' = r.fs
                     /\ attempted' = r.attempted
                     /\ IF r.threw
                          THEN /\ SayAbout("failed", item.name)
                               /\ UNCHANGED <<totalCleaned, itemsCleaned>>
                          ELSE /\ totalCleaned' = totalCleaned + r.cleaned
                               /\ itemsCleaned' = itemsCleaned + 1
                               /\ SayAbout("cleaned", item.name)
                ELSE /\ attempted' = attempted \cup {item.path}
                     /\ IF item.path \in m.rmBad
                          THEN /\ SayAbout("failed", item.name)
                               /\ totalCleaned' = totalCleaned + AddedOnFailure(item.size)
                               /\ UNCHANGED <<fs, itemsCleaned>>
                          ELSE /\ fs' = [fs EXCEPT ![item.path] = Absent]
                               /\ totalCleaned' = totalCleaned + item.size
                               /\ itemsCleaned' = itemsCleaned + 1
                               /\ SayAbout("cleaned", item.name)
  /\ UNCHANGED <<msr, dep, br, args, cmd, st, pc, result, exitCode, calls, disk, repo, choice, start,
                 catalog, selected, allItems>>

\* the final report and the hint
ClnReport ==
  /\ pc = "cln_loop" /\ idx > Len(LoopItems(selected, catalog))
  /\ out' = out \cup {<<"completed">>}
                \cup (IF \E i \in 1..Len(selected) :
                           selected[i] \in {"Node modules", "Package lock file"}
                        THEN {<<"reinstall_hint">>} ELSE {})
  /\ Return
  /\ UNCHANGED <<msr, dep, br, args, cmd, st, calls, disk, repo, choice, start, cln>>

\* --------------------------------------------------------------- status
Envs == {"ok", "git_broken", "offline", "no_remote_ref"}

NoDelta == [k |-> "none", n |-> 0]
EmptySnap ==
  [class |-> "none", branch |-> "none", counts |-> CleanTree, delta |-> NoDelta,
   disk |-> [node_modules |-> 0, projects |-> 0], sections |-> {},
   lockFileStale |-> FALSE, built |-> {}]

\* status.isClean() ? 'Clean' : 'Modified'
StateOf_UntrackedIgnored(t) ==
  IF t.modified = 0 /\ t.staged = 0 THEN "Clean" ELSE "Dirty"

StateOf(t) == IF isClean(t) THEN "Clean" ELSE "Dirty"

\* git fetch origin <branch> --dry-run: the remote-tracking ref afterwards
FetchDryRun_RefUpdated(o, r) == r

FetchDryRun(o, r) == o

\* the catch around fetch and log: 'Could not check for updates'
RemoteCheckFailed_Silent(s) == s

RemoteCheckFailed(s) == [s EXCEPT !.delta = [k |-> "unknown", n |-> 0]]

\* statusWorkspace up to the git section: existence check, basic info
StStart ==
  /\ cmd = "status" /\ pc = "st_start"
  /\ IF ~workspaceExists(root)
       THEN /\ snap' = [snap EXCEPT !.class = "Missing"]
            /\ out' = out \cup {<<"no_workspace">>, <<"run_init">>}
            /\ Return
       ELSE /\ snap' = [snap EXCEPT !.sections = @ \cup {"basic"}]
            /\ pc' = "st_git"
            /\ UNCHANGED <<out, result, exitCode>>
  /\ UNCHANGED <<msr, dep, br, args, cmd, env, prev, calls, disk, repo, choice, start, cln>>

\* showGitStatus up to the counts: git.status(), git.branch()
StGit ==
  /\ pc = "st_git"
  /\ IF ~gitExists
       THEN /\ snap' = [snap EXCEPT !.class = "NotTracked", !.sections = @ \cup {"git"}]
            /\ Say("not_a_repository")
            /\ pc' = "st_rest"
            /\ UNCHANGED calls
       ELSE IF env = "git_broken"
         THEN /\ Call("status")
              /\ snap' = [snap EXCEPT !.class = "Unreadable", !.sections = @ \cup {"git"}]
              /\ Say("could_not_read_git_status")
              /\ pc' = "st_rest"
         ELSE /\ calls' = calls \o <<"status", "branch">>
              /\ snap' = [snap EXCEPT !.class = StateOf(tree), !.branch = current,
                                      !.counts = tree, !.sections = @ \cup {"git"}]
              /\ pc' = "st_remote"
              /\ UNCHANGED out
  /\ UNCHANGED <<msr, dep, br, args, cmd, env, prev, result, exitCode, disk, repo, choice, start, cln>>

\* git.log([`HEAD..origin/${branch.current}`]).all.length
Behind(b, h, o, other) == IF b = "main" THEN Pending(h, o) ELSE other

\* the branch update fetches, compares with and pulls
UpdateBranch == "main"

\* showGitStatus, the check for updates: dry-run fetch, then the log of
\* HEAD..origin/<branch>
StRemote ==
  /\ pc = "st_remote"
  /\ pc' = "st_rest"
  /\ IF env = "offline"
       THEN /\ Call("fetch_failed")
            /\ snap' = RemoteCheckFailed(snap)
            /\ Say("could_not_check_for_updates")
            /\ UNCHANGED originMain
       ELSE /\ originMain' = FetchDryRun(originMain, remoteHead)
            /\ IF env = "no_remote_ref"
                 THEN /\ calls' = calls \o <<"fetch_dry", "log_failed">>
                      /\ snap' = RemoteCheckFailed(snap)
                      /\ Say("could_not_check_for_updates")
                 ELSE /\ calls' = calls \o <<"fetch_dry", "log">>
                      /\ snap' = [snap EXCEPT !.delta =
                                    [k |-> "known",
                                     n |-> Behind(current, head, originMain', behindCurrent)]]
                      /\ IF Behind(current, head, originMain', behindCurrent) > 0
                           THEN Say("updates_available") ELSE Say("up_to_date")
  /\ UNCHANGED <<msr, dep, br, args, cmd, env, prev, result, exitCode, disk, tree, head, remoteHead,
                 stash, choice, start, cln>>

\* lockStats.mtime < packageStats.mtime
IsOlder_OrSame(a, b) == a <= b

IsOlder(a, b) == a < b

\* showDependenciesStatus: the package-lock.json check is reached when
\* package.json exists and parses, and made when package-lock.json exists
lockFileStale(f, hasPkg, readable, mt) ==
  hasPkg /\ readable /\ exists(f, LockFile) /\ IsOlder(mt.lock, mt.manifest)

dependenciesReport(f, hasPkg, readable, mt) ==
  IF ~hasPkg THEN {<<"no_package_json">>}
  ELSE IF ~readable THEN {<<"could_not_read_dependencies">>}
  ELSE IF lockFileStale(f, hasPkg, readable, mt) THEN {<<"lock_older_than_manifest">>}
  ELSE {}

\* fs.readdirSync(scriptsDir, { recursive: true }) filtered by
\* file.endsWith('.js'): the entries at any depth, directories as well as
\* files, whose name ends with .js
RECURSIVE jsFiles(_)
RECURSIVE jsFilesFrom(_, _)
jsFiles(node) == jsFilesFrom(node, 1)
jsFilesFrom(node, i) ==
  IF i > Len(node.c) THEN 0
  ELSE (IF node.c[i].js THEN 1 ELSE 0)
       + (IF node.c[i].t = "dir" THEN jsFiles(node.c[i]) ELSE 0)
       + jsFilesFrom(node, i + 1)

\* projects.slice(0, 10)
ListLimit == 10

\* showProjectsStatus, the loop over the projects: those shown as built, and
\* whether the loop was left through the catch (readdirSync throws on a
\* scripts path that is not a directory)
RECURSIVE projectDetails(_, _)
projectDetails(f, p) ==
  IF p > NumProjects \/ p > ListLimit THEN [built |-> {}, failed |-> FALSE]
  ELSE IF f[ScriptsDir(p)].t = "file" THEN [built |-> {}, failed |-> TRUE]
  ELSE LET rest == projectDetails(f, p + 1)
       IN  [built |-> (IF exists(f, ScriptsDir(p)) /\ jsFiles(f[ScriptsDir(p)]) > 0
                         THEN {p} ELSE {}) \cup rest.built,
            failed |-> rest.failed]

projectsReport(f) ==
  {<<"built", p>> : p \in projectDetails(f, 1).built}
    \cup (IF projectDetails(f, 1).failed
            THEN {<<"could_not_read_projects">>} ELSE {})

\* the remaining sections: dependencies, projects, libraries, disk usage,
\* system information; each reports its own failure and none throws
StRest ==
  /\ pc = "st_rest"
  /\ snap' = [snap EXCEPT
                 !.lockFileStale = lockFileStale(fs, pkgJson, pkgReadable, mtime),
                 !.built = projectDetails(fs, 1).built,
                 !.disk = [node_modules |->
                             getDirectorySize(fs[NodeModules], NodeModules, <<>>, {}),
                           projects |-> SumProjects(fs, {}, 1)],
                 !.sections = @ \cup {"dependencies", "projects", "libraries",
                                      "disk", "system"}]
  /\ out' = out \cup dependenciesReport(fs, pkgJson, pkgReadable, mtime)
                  \cup projectsReport(fs)
  /\ Return
  /\ UNCHANGED <<msr, dep, br, args, cmd, env, prev, calls, disk, repo, choice, start, cln>>

\* the operator runs status once more, with nothing done in between
StAgain ==
  /\ cmd = "status" /\ pc = "done" /\ prev = <<>>
  /\ prev' = <<snap>>
  /\ snap' = EmptySnap
  /\ pc' = "st_start" /\ result' = "running" /\ exitCode' = -1
  /\ UNCHANGED <<msr, dep, br, args, cmd, env, out, calls, disk, repo, choice, start, cln>>

\* ---------------------------------------------------------- entry point
Commands == {"init", "update", "clean", "status", "help", "version", "other"}
Flags == {"--update", "--clean", "--status", "--help", "--version"}

\* the if / else-if chain of main()
Route(a) ==
  IF "--update" \in a.flags \/ a.command = "update" THEN "update"
  ELSE IF "--clean" \in a.flags \/ a.command = "clean" THEN "clean"
  ELSE IF "--status" \in a.flags \/ a.command = "status" THEN "status"
  ELSE IF "--help" \in a.flags \/ a.command = "help" THEN "help"
  ELSE IF "--version" \in a.flags \/ a.command = "version" THEN "version"
  ELSE "init"

StartOf(handler) ==
  IF handler = "update" THEN "upd_start"
  ELSE IF handler = "clean" THEN "cln_start"
  ELSE IF handler = "status" THEN "st_start"
  ELSE IF handler = "init" THEN "init_start"
  ELSE handler

Dispatch ==
  /\ pc = "main"
  /\ cmd' = Route(args)
  /\ pc' = StartOf(cmd')
  /\ UNCHANGED <<msr, dep, br, args, st, result, exitCode, out, calls, disk, repo, choice, start, cln>>

showHelp ==
  /\ pc = "help"
  /\ Say("usage") /\ Return
  /\ UNCHANGED <<msr, dep, br, args, cmd, st, calls, disk, repo, choice, start, cln>>

showVersion ==
  /\ pc = "version"
  /\ Say("version") /\ Return
  /\ UNCHANGED <<msr, dep, br, args, cmd, st, calls, disk, repo, choice, start, cln>>

\* ------------------------------------------------------------------ spec
Canonical(command) == args = [command |-> command, flags |-> {}]
NoFiles == [path \in Paths |-> Absent]
SomeFiles ==
  [path \in Paths |->
     IF path \in {NodeModules, LockFile, DistDir(1)} THEN Present(path) ELSE Absent]

InitUpdate ==
  /\ Canonical("update") /\ env = "ok"
  /\ root \in {"absent", "orig"}
  /\ gitExists \in BOOLEAN /\ (root = "absent" => ~gitExists)
  /\ pkgJson \in BOOLEAN /\ (root = "absent" => ~pkgJson)
  /\ IF gitExists
       THEN /\ tree \in [modified : 0..MaxFiles, untracked : 0..MaxFiles, staged : 0..MaxFiles]
            /\ remoteHead \in 0..MaxCommit
            /\ originMain \in 0..remoteHead
            /\ head \in {Commit(n, l) : n \in 0..originMain, l \in 0..1}
       ELSE /\ tree = CleanTree /\ remoteHead = 0 /\ originMain = 0
            /\ head = Commit(0, 0)
  /\ fs = NoFiles

InitClean ==
  /\ Canonical("clean") /\ env = "ok"
  /\ root \in {"absent", "orig"}
  /\ gitExists = FALSE /\ pkgJson = (root # "absent")
  /\ tree = CleanTree /\ remoteHead = 0 /\ originMain = 0 /\ head = Commit(0, 0)
  /\ IF root = "absent"
       THEN fs = NoFiles
       ELSE fs \in {[path \in Paths |-> IF path \in here THEN Present(path) ELSE Absent] :
                      here \in SUBSET Paths}

InitStatus ==
  /\ Canonical("status")
  /\ root \in {"absent", "orig"}
  /\ gitExists \in BOOLEAN /\ (root = "absent" => ~gitExists)
  /\ pkgJson = (root # "absent")
  /\ IF gitExists
       THEN /\ tree \in [modified : 0..MaxFiles, untracked : 0..MaxFiles, staged : 0..MaxFiles]
            /\ remoteHead \in 0..MaxCommit
            /\ originMain \in 0..remoteHead
            /\ head \in {Commit(n, l) : n \in 0..originMain, l \in 0..1}
            /\ env \in Envs
       ELSE /\ tree = CleanTree /\ remoteHead = 0 /\ originMain = 0
            /\ head = Commit(0, 0) /\ env = "ok"
  /\ IF root = "absent" THEN fs = NoFiles ELSE fs \in {NoFiles, SomeFiles}

InitInit ==
  /\ Canonical("init") /\ env = "ok"
  /\ root \in {"absent", "orig"}
  /\ gitExists \in BOOLEAN /\ (root = "absent" => ~gitExists)
  /\ pkgJson = (root # "absent")
  /\ tree = CleanTree /\ remoteHead = 0 /\ originMain = 0 /\ head = Commit(0, 0)
  /\ fs = NoFiles

\* any command line, on one tracked workspace with a modified file, the
\* remote one commit ahead, and a lock file
InitArgs ==
  /\ args \in [command : Commands, flags : SUBSET Flags]
  /\ env = "ok"
  /\ root = "orig" /\ gitExists = TRUE /\ pkgJson = TRUE
  /\ tree = [modified |-> 1, untracked |-> 0, staged |-> 0]
  /\ remoteHead = 1 /\ originMain = 0 /\ head = Commit(0, 0)
  /\ fs = [path \in Paths |-> IF path = LockFile THEN Present(path) ELSE Absent]

SameTimes == [lock |-> 0, manifest |-> 0]

\* the branch main is checked out
OnMain == current = "main" /\ behindCurrent = 0

\* status on a tracked workspace with another branch checked out, whose
\* remote counterpart is up to MaxCommit commits ahead of HEAD
InitStatusBranch ==
  /\ Canonical("status") /\ env = "ok"
  /\ root = "orig" /\ gitExists = TRUE /\ pkgJson = TRUE
  /\ tree = CleanTree /\ fs = NoFiles
  /\ remoteHead \in 0..MaxCommit
  /\ originMain \in 0..remoteHead
  /\ head \in {Commit(n, l) : n \in 0..originMain, l \in 0..1}
  /\ current = "dev" /\ behindCurrent \in 0..MaxCommit
  /\ mtime = SameTimes /\ pkgReadable = TRUE

\* status on a workspace without .git: the manifest, the lock file and
\* their modification times
InitStatusDeps ==
  /\ Canonical("status") /\ env = "ok"
  /\ root = "orig" /\ gitExists = FALSE
  /\ tree = CleanTree /\ remoteHead = 0 /\ originMain = 0 /\ head = Commit(0, 0)
  /\ pkgJson \in BOOLEAN /\ pkgReadable \in BOOLEAN /\ (~pkgJson => ~pkgReadable)
  /\ mtime \in [lock : 0..MaxTime, manifest : 0..MaxTime]
  /\ OnMain
  /\ fs \in {NoFiles, [NoFiles EXCEPT ![LockFile] = Present(LockFile)]}

\* what a behavior_pack/scripts path can hold
ScriptTrees ==
  {Absent, File(1), Dir(<<>>), Dir(<<File(1)>>), Dir(<<Js(File(1))>>),
   Dir(<<Dir(<<Js(File(1))>>)>>), Dir(<<Js(Dir(<<>>))>>)}

\* status on a workspace without .git: the scripts of every project
InitStatusProjects ==
  /\ Canonical("status") /\ env = "ok"
  /\ root = "orig" /\ gitExists = FALSE /\ pkgJson = TRUE
  /\ tree = CleanTree /\ remoteHead = 0 /\ originMain = 0 /\ head = Commit(0, 0)
  /\ mtime = SameTimes /\ pkgReadable = TRUE /\ OnMain
  /\ \E scripts \in [Projects -> ScriptTrees] :
       fs = [path \in Paths |->
               IF path[1] = "scripts" THEN scripts[path[2]] ELSE Absent]

Init ==
  /\ cmd = "none" /\ pc = "main" /\ exitCode = -1
  /\ allItems = <<>> /\ snap = EmptySnap /\ prev = <<>>
  /\ result = "running" /\ out = {} /\ calls = <<>>
  /\ backup = "none" /\ choice = "none" /\ stash = <<>>
  /\ catalog = <<>> /\ selected = <<>> /\ idx = 1
  /\ totalCleaned = 0 /\ itemsCleaned = 0 /\ attempted = {}
  /\ dir = Absent /\ faults = {} /\ sized = [done |-> FALSE, size |-> 0]
  /\ \/ /\ (InitUpdate \/ InitClean \/ InitStatus \/ InitInit \/ InitArgs)
        /\ mtime = SameTimes /\ pkgReadable = TRUE /\ OnMain
     \/ InitStatusDeps
     \/ InitStatusProjects
     \/ InitStatusBranch
  /\ start = [tree |-> tree, head |-> head, originMain |-> originMain,
              stash |-> stash, root |-> root, fs |-> fs]

Next ==
  \/ Dispatch
  \/ showHelp
  \/ showVersion
  \/ StStart
  \/ StGit
  \/ StRemote
  \/ StRest
  \/ StAgain
  \/ UpdStart
  \/ UpdReinitPrompt
  \/ UpdStatus
  \/ UpdStash
  \/ UpdReset
  \/ UpdClean
  \/ UpdFetch
  \/ UpdCompare
  \/ UpdConfirm
  \/ UpdPull
  \/ UpdDeps
  \/ ReinitCopy
  \/ ReinitRemove
  \/ ReinitInit
  \/ InitStart
  \/ InitClone
  \/ InitRest
  \/ ClnStart
  \/ ClnSelect
  \/ ClnConfirm
  \/ ClnItem
  \/ ClnReport

Spec == Init /\ [][Next]_vars

\* ------------------------------------------- getDirectorySize on its own
MeasuredDir == <<"measured", 0>>

\* the sequences of at most MaxEntries entries taken from S
EntriesFrom(S) == UNION {[1..n -> S] : n \in 0..MaxEntries}

\* directories two levels deep, with links back to a directory above
InnerDirs ==
  {Dir(<<>>), Dir(<<File(4)>>), Dir(<<Link(1)>>), Dir(<<Link(2)>>),
   Dir(<<File(4), Link(1)>>), Dir(<<File(4), Link(2)>>)}
Trees == {Absent} \cup {Dir(c) : c \in EntriesFrom({File(1), Link(1)} \cup InnerDirs)}

\* the same without links
PlainInnerDirs == {Dir(c) : c \in EntriesFrom({File(4)})}
PlainTrees ==
  {Absent} \cup {Dir(c) : c \in EntriesFrom({File(1), File(2)} \cup PlainInnerDirs)}

\* no filesystem error, or one: a readdirSync or a statSync that throws
MeasureFaults ==
  {{}} \cup {{Fault("readdir", MeasuredDir, sub)} :
               sub \in {<<>>} \cup {<<i>> : i \in 1..MaxEntries}}
       \cup {{Fault("stat", MeasuredDir, sub)} :
               sub \in {<<i>> : i \in 1..MaxEntries}
                         \cup {<<i, j>> : i, j \in 1..MaxEntries}}

InitSize ==
  /\ args = [command |-> "none", flags |-> {}]
  /\ cmd = "none" /\ pc = "size" /\ exitCode = -1
  /\ allItems = <<>> /\ snap = EmptySnap /\ prev = <<>> /\ env = "ok"
  /\ result = "running" /\ out = {} /\ calls = <<>>
  /\ backup = "none" /\ choice = "none" /\ stash = <<>>
  /\ catalog = <<>> /\ selected = <<>> /\ idx = 1
  /\ totalCleaned = 0 /\ itemsCleaned = 0 /\ attempted = {}
  /\ root = "orig" /\ gitExists = FALSE /\ pkgJson = TRUE
  /\ tree = CleanTree /\ remoteHead = 0 /\ originMain = 0 /\ head = Commit(0, 0)
  /\ fs = NoFiles
  /\ start = [tree |-> tree, head |-> head, originMain |-> originMain,
              stash |-> stash, root |-> root, fs |-> fs]
  /\ sized = [done |-> FALSE, size |-> 0]
  /\ mtime = SameTimes /\ pkgReadable = TRUE /\ OnMain
  /\ \/ dir \in Trees /\ faults = {}
     \/ dir \in PlainTrees /\ faults \in MeasureFaults

\* await getDirectorySize(dirPath)
Measure ==
  /\ pc = "size"
  /\ pc' = "sized"
  /\ sized' = [done |-> TRUE,
               size |-> getDirectorySize(dir, MeasuredDir, <<>>, faults)]
  /\ UNCHANGED <<dir, faults, dep, br, args, cmd, st, result, exitCode, out, calls, disk,
                 repo, choice, start, cln>>

NextSize == Measure

SpecSize == InitSize /\ [][NextSize]_vars

\* ------------------------------- the list of incoming commits on its own
\* update past the comparison, local HEAD differing from origin/main, with
\* up to MaxLog commits on the remote branch
InitLog ==
  /\ args = [command |-> "update", flags |-> {}]
  /\ cmd = "update" /\ pc = "upd_log" /\ exitCode = -1
  /\ allItems = <<>> /\ snap = EmptySnap /\ prev = <<>> /\ env = "ok"
  /\ result = "running" /\ out = {} /\ calls = <<>>
  /\ backup = "none" /\ choice = "none" /\ stash = <<>>
  /\ catalog = <<>> /\ selected = <<>> /\ idx = 1
  /\ totalCleaned = 0 /\ itemsCleaned = 0 /\ attempted = {}
  /\ root = "orig" /\ gitExists = TRUE /\ pkgJson = TRUE
  /\ tree = CleanTree /\ fs = NoFiles
  /\ remoteHead \in 0..MaxLog /\ originMain = remoteHead
  /\ head \in {Commit(n, l) : n \in 0..originMain, l \in 0..1}
  /\ head # Commit(originMain, 0)
  /\ start = [tree |-> tree, head |-> head, originMain |-> originMain,
              stash |-> stash, root |-> root, fs |-> fs]
  /\ dir = Absent /\ faults = {} /\ sized = [done |-> FALSE, size |-> 0]
  /\ mtime = SameTimes /\ pkgReadable = TRUE /\ OnMain

\* 'Changes to be applied:' and the lines under it
ShowChanges ==
  /\ pc = "upd_log"
  /\ pc' = "upd_logged"
  /\ calls' = Append(calls, "log")
  /\ out' = out \cup changesReport(log(head, originMain))
  /\ UNCHANGED <<msr, dep, br, args, cmd, st, result, exitCode, disk, repo, choice,
                 start, cln>>

NextLog == ShowChanges

SpecLog == InitLog /\ [][NextLog]_vars

\* ------------------------------------------------------------ properties
HasCall(c) == \E i \in 1..Len(calls) : calls[i] = c
CountCalls(c) == Cardinality({i \in 1..Len(calls) : calls[i] = c})
\* a call c1 was made, and every call c2 came after it
Precedes(c1, c2) ==
  \A j \in 1..Len(calls) : calls[j] = c2 => \E i \in 1..(j - 1) : calls[i] = c1
Said(m) == <<m>> \in out
Finished == pc = "done" /\ result = "returned"
RepoAsAtStart ==
  /\ tree = start.tree /\ head = start.head
  /\ originMain = start.originMain /\ stash = start.stash

\* C1: a run of update that finds local HEAD equal to the remote ref after
\* the fetch reports up-to-date and has made no stash, reset, clean or pull,
\* also when it started with a dirty working tree.
C1_UpToDateWithoutMutation ==
  /\ (cmd = "update" /\ pc = "done" /\ HasCall("revparse") /\ result = "returned"
        /\ ~HasCall("differs"))
       => Said("up_to_date")
  /\ Said("up_to_date")
       => /\ ~HasCall("stash") /\ ~HasCall("reset")
          /\ ~HasCall("clean") /\ ~HasCall("pull")

\* C2: reset and clean are invoked only on a dirty workspace after the
\* choice discard, stash only on a dirty workspace after the choice stash,
\* each at most once, never without a choice, and reset comes before clean.
C2_DestructiveOnlyByChoice ==
  /\ HasCall("reset") => ~isClean(start.tree) /\ choice = "discard"
  /\ HasCall("clean") => ~isClean(start.tree) /\ choice = "discard"
  /\ HasCall("stash") => ~isClean(start.tree) /\ choice = "stash"
  /\ CountCalls("reset") <= 1 /\ CountCalls("clean") <= 1 /\ CountCalls("stash") <= 1
  /\ Precedes("choose", "reset") /\ Precedes("choose", "clean")
  /\ Precedes("choose", "stash")
  /\ Precedes("reset", "clean")

\* a run in which the operator chose discard and both steps were made
C2_Witness ==
  /\ pc = "done" /\ choice = "discard" /\ HasCall("reset") /\ HasCall("clean")
  /\ isClean(tree) /\ ~isClean(start.tree)

\* C3: on a dirty workspace with the choice cancel, update returns normally
\* having made no stash, reset, clean, fetch, pull or install, and working
\* tree, HEAD, remote-tracking ref and stash list are as before the run.
C3_CancelLeavesAllUntouched ==
  (cmd = "update" /\ choice = "cancel")
    => /\ Finished
       /\ ~HasCall("stash") /\ ~HasCall("reset") /\ ~HasCall("clean")
       /\ ~HasCall("fetch") /\ ~HasCall("pull") /\ ~HasCall("install")
       /\ RepoAsAtStart

\* a dirty workspace on which the operator chose cancel
C3_Witness ==
  /\ choice = "cancel" /\ ~isClean(start.tree) /\ Said("cancelled") /\ Finished

\* C4: pull is invoked at most once, and only after, in this order, the
\* fetch succeeded, HEAD was found to differ from the remote ref and the
\* operator answered yes to the apply-confirmation.
C4_PullOnlyAfterConfirmation ==
  /\ CountCalls("pull") <= 1
  /\ \A l \in 1..Len(calls) : calls[l] = "pull" =>
       \E i, j, k \in 1..l :
         /\ i < j /\ j < k /\ k < l
         /\ calls[i] = "fetch_ok" /\ calls[j] = "differs" /\ calls[k] = "confirm_yes"

\* a run that pulled, with the remote ahead
C4_Witness ==
  /\ HasCall("pull") /\ pc = "done" /\ Said("updated")
  /\ head # start.head

\* C5, as stated: when the operator declines the apply-confirmation, update
\* ends with pull and install never invoked and with local HEAD and the
\* working tree equal to what they were at the start.
C5_DeclineLeavesTreeAsAtStart ==
  HasCall("confirm_no")
    => /\ Finished
       /\ ~HasCall("pull") /\ ~HasCall("install")
       /\ head = start.head /\ tree = start.tree

\* C5, amended: when the operator declines the apply-confirmation, update
\* returns normally, pull and install are never invoked and local HEAD is
\* as at the start; the working tree is as at the start when it was clean
\* then, and otherwise is as the chosen resolution left it (stash: modified
\* and staged entries moved to a new stash entry, untracked ones kept;
\* discard: no entry left).
C5_DeclineKeepsHeadAndResolution ==
  HasCall("confirm_no")
    => /\ Finished
       /\ ~HasCall("pull") /\ ~HasCall("install")
       /\ head = start.head
       /\ isClean(start.tree) => tree = start.tree /\ stash = start.stash
       /\ choice = "stash"
            => /\ tree.modified = 0 /\ tree.staged = 0
               /\ tree.untracked = start.tree.untracked
               /\ Len(stash) = (IF start.tree.modified + start.tree.staged > 0
                                  THEN 1 ELSE 0)
       /\ choice = "discard" => isClean(tree) /\ stash = start.stash

\* the operator stashed real changes and then declined
C5_Witness ==
  /\ HasCall("confirm_no") /\ choice = "stash" /\ Len(stash) = 1
  /\ tree # start.tree /\ Finished

\* C6: reinitialization runs backup copy, delete root, initialize in this
\* order; the root is deleted only with the complete copy on disk; when the
\* copy fails the root is intact, initialize is not invoked and the error
\* propagates.
C6_BackupBeforeDelete ==
  cmd = "update"
    => /\ HasCall("remove_root") => backup = "full"
       /\ Precedes("copy", "remove_root") /\ Precedes("remove_root", "init")
       /\ Precedes("confirm_reinit", "copy")
       /\ (HasCall("copy") /\ backup # "full")
            => /\ root = start.root
               /\ ~HasCall("remove_root") /\ ~HasCall("init")
               /\ pc = "done" /\ result = "thrown"

\* the copy failed part-way
C6_Witness ==
  /\ HasCall("copy") /\ backup = "partial" /\ result = "thrown"
  /\ root = "orig"

\* the paths of one category
CategoryPaths(name) ==
  IF name = "Node modules" THEN {NodeModules}
  ELSE IF name = "Package lock file" THEN {LockFile}
  ELSE IF name = "VS Code settings" THEN {VsCode}
  ELSE IF name = "Build outputs"
    THEN {ScriptsDir(p) : p \in Projects} \cup {DistDir(p) : p \in Projects}
  ELSE {}

Processed(name) == <<"cleaned", name>> \in out \/ <<"failed", name>> \in out
CatalogNames == {catalog[i].name : i \in 1..Len(catalog)}
SelectedNames == {selected[i] : i \in 1..Len(selected)}
CleanedNames == {n \in CatalogNames : <<"cleaned", n>> \in out}

RECURSIVE CatalogSize(_, _)
\* the sum of the catalog sizes of the categories named in names
CatalogSize(names, i) ==
  IF i > Len(catalog) THEN 0
  ELSE (IF catalog[i].name \in names THEN catalog[i].size ELSE 0)
       + CatalogSize(names, i + 1)

\* C7: when Build outputs is cleaned, the removal of every existing scripts
\* or dist subpath of a project is attempted whatever failed at another
\* project.
C7_EveryProjectAttempted ==
  Processed("Build outputs")
    => \A p, q \in Projects :
         (p # q /\ (ScriptsDir(p) \in attempted \/ DistDir(p) \in attempted))
           => /\ exists(start.fs, ScriptsDir(q)) => ScriptsDir(q) \in attempted
              /\ exists(start.fs, DistDir(q)) => DistDir(q) \in attempted

\* C8: the bytes reported at the end of clean are the sum of the catalog
\* sizes of the categories counted as cleaned.
C8_ReclaimedIsCatalogSize ==
  (cmd = "clean" /\ Said("completed"))
    => totalCleaned = CatalogSize(CleanedNames, 1)

\* C9: the bytes reported are at most the sum of the catalog sizes of the
\* selected categories; with nothing selected, nothing is reclaimed and
\* nothing is deleted.
C9_ReclaimedAtMostSelected ==
  /\ (cmd = "clean" /\ Said("completed"))
       => totalCleaned <= CatalogSize(SelectedNames, 1)
  /\ (cmd = "clean" /\ pc = "done" /\ selected = <<>>)
       => totalCleaned = 0 /\ attempted = {} /\ fs = start.fs

\* C10: a category of the catalog that the operator did not select keeps
\* its paths as they were, and no more categories are counted as cleaned
\* than were selected.
C10_UnselectedUntouched ==
  (cmd = "clean" /\ pc \in {"cln_confirm", "cln_loop", "done"})
    => /\ \A n \in CatalogNames \ SelectedNames :
            \A path \in CategoryPaths(n) :
              fs[path] = start.fs[path] /\ path \notin attempted
       /\ itemsCleaned <= Len(selected)

\* the lock file was cleaned and node_modules, offered but not selected,
\* is still there
C10_Witness ==
  /\ Said("completed") /\ itemsCleaned = 1
  /\ SelectedNames = {"Package lock file"}
  /\ "Node modules" \in CatalogNames
  /\ ~exists(fs, LockFile) /\ exists(fs, NodeModules)
  /\ totalCleaned = Bytes(LockFile)

DirectNames == {"Node modules", "Package lock file", "VS Code settings"}
FailedNames == {n \in CatalogNames : <<"failed", n>> \in out}

\* C11: a selected direct category whose removal fails is reported as failed
\* and adds nothing to the cleaned count or to the reclaimed bytes; the run
\* does not throw, every selected category before the loop position has been
\* attempted, and the final report comes with every selected category
\* attempted.
C11_DirectFailureIsContained ==
  (cmd = "clean" /\ FailedNames \cap DirectNames # {})
    => /\ result # "thrown"
       /\ FailedNames \cap CleanedNames = {}
       /\ itemsCleaned = Cardinality(CleanedNames)
       /\ "Build outputs" \notin CleanedNames
            => totalCleaned = CatalogSize(CleanedNames, 1)
       /\ \A i \in 1..Len(selected) :
            (i < idx \/ Said("completed"))
              => /\ Processed(selected[i])
                 /\ selected[i] \in DirectNames
                      => CategoryPaths(selected[i]) \subseteq attempted
       /\ pc = "done" => Finished /\ Said("completed")

\* the removal of node_modules failed, the lock file after it was cleaned,
\* and the final report counts the lock file alone
C11_Witness ==
  /\ Said("completed") /\ Finished
  /\ <<"failed", "Node modules">> \in out /\ exists(fs, NodeModules)
  /\ <<"cleaned", "Package lock file">> \in out /\ ~exists(fs, LockFile)
  /\ itemsCleaned = 1 /\ totalCleaned = Bytes(LockFile)

\* whether the path of a category exists: a cleanable path as the filesystem
\* has it, the projects directory when a project holds a subpath, the
\* workspace root always (clean has passed its existence check)
pathExists(f, path) ==
  IF path \in Paths THEN exists(f, path)
  ELSE IF path = ProjectsDir
    THEN \E p \in Projects : exists(f, ScriptsDir(p)) \/ exists(f, DistDir(p))
  ELSE TRUE

Measured == {allItems[i] : i \in 1..Len(allItems)}

\* C12, as stated: a category is left out of the catalog exactly when its
\* computed size is 0 and its path does not exist; every category with a
\* non-zero size or an existing path is offered.
C12_LeftOutIffEmptyAndAbsent ==
  (cmd = "clean" /\ allItems # <<>>)
    => \A item \in Measured :
         (item.name \notin CatalogNames)
           <=> (item.size = 0 /\ ~pathExists(start.fs, item.path))

\* C12, amended: a direct category is left out exactly when its path does
\* not exist, whatever its computed size; a pattern category is left out
\* exactly when its computed size is 0, whether or not its path exists.
C12_DirectByPathPatternBySize ==
  (cmd = "clean" /\ allItems # <<>>)
    => \A item \in Measured :
         (item.name \notin CatalogNames)
           <=> (IF item.isPattern THEN item.size = 0
                ELSE ~exists(start.fs, item.path))

\* node_modules exists and was measured as 0 bytes, and is offered; the
\* temporary files, 0 bytes under the existing root, are not
C12_Witness ==
  /\ pc = "cln_select"
  /\ \E item \in Measured :
       /\ item.name = "Node modules" /\ item.size = 0
       /\ exists(start.fs, NodeModules)
  /\ "Node modules" \in CatalogNames
  /\ "Temporary files" \notin CatalogNames

\* status has classified the workspace in the current run
Classified == cmd = "status" /\ (snap.class # "none" \/ pc = "done")

\* C13, as stated: every status call classifies the workspace as exactly
\* one of Missing, NotTracked, Clean, Dirty: Missing iff the root does not
\* exist, NotTracked iff the root exists without .git, Clean iff .git is
\* present and there is no modified, untracked or staged entry, Dirty iff
\* .git is present and there is such an entry.
C13_OneOfFourClasses ==
  Classified
    => /\ snap.class \in {"Missing", "NotTracked", "Clean", "Dirty"}
       /\ snap.class = "Missing" <=> root = "absent"
       /\ snap.class = "NotTracked" <=> (root # "absent" /\ ~gitExists)
       /\ snap.class = "Clean" <=> (gitExists /\ isClean(tree))
       /\ snap.class = "Dirty" <=> (gitExists /\ ~isClean(tree))

\* C13, amended: the four classes are given as stated whenever git.status()
\* and git.branch() succeed; when .git is present and one of them fails,
\* status reports that it could not read the git status and gives none of
\* the four classes.
C13_OneOfFourWhenReadable ==
  Classified
    => /\ snap.class \in {"Missing", "NotTracked", "Clean", "Dirty", "Unreadable"}
       /\ snap.class = "Missing" <=> root = "absent"
       /\ snap.class = "NotTracked" <=> (root # "absent" /\ ~gitExists)
       /\ snap.class = "Clean" <=> (gitExists /\ env # "git_broken" /\ isClean(tree))
       /\ snap.class = "Dirty" <=> (gitExists /\ env # "git_broken" /\ ~isClean(tree))
       /\ snap.class = "Unreadable" <=> (gitExists /\ env = "git_broken")
       /\ snap.class = "Unreadable" => Said("could_not_read_git_status")

\* a tracked workspace whose only entry is an untracked file, reported Dirty
C13_Witness ==
  /\ cmd = "status" /\ Finished /\ snap.class = "Dirty"
  /\ tree.untracked > 0 /\ tree.modified = 0 /\ tree.staged = 0

RestSections == {"dependencies", "projects", "libraries", "disk", "system"}

\* C14: when the fetch, or the log against the remote ref, fails during
\* status, status reports that it could not check for updates, has still
\* reported the branch and the clean or dirty state with its counts, goes
\* on through every remaining section and returns normally with exit 0.
C14_FetchFailureDegrades ==
  (cmd = "status" /\ pc \in {"st_rest", "done"}
     /\ (HasCall("fetch_failed") \/ HasCall("log_failed")))
    => /\ snap.delta.k = "unknown"
       /\ Said("could_not_check_for_updates")
       /\ ~Said("updates_available") /\ ~Said("up_to_date")
       /\ snap.class = StateOf(tree) /\ snap.branch = current /\ snap.counts = tree
       /\ result # "thrown"
       /\ pc = "done"
            => Finished /\ exitCode = 0 /\ RestSections \subseteq snap.sections

\* a status run on a dirty workspace whose fetch failed, at its end
C14_Witness ==
  /\ cmd = "status" /\ Finished /\ HasCall("fetch_failed")
  /\ snap.class = "Dirty" /\ snap.delta.k = "unknown"
  /\ "system" \in snap.sections /\ exitCode = 0

\* C15: when the fetch of status succeeds, the delta status reports is the
\* number of commits the remote branch has at that moment and local HEAD
\* lacks: updates available exactly when that number is positive, up to
\* date exactly when it is 0.
C15_DeltaIsWhatRemoteHas ==
  (cmd = "status" /\ snap.delta.k = "known")
    => /\ snap.delta.n = Pending(head, remoteHead)
       /\ Said("updates_available") <=> Pending(head, remoteHead) > 0
       /\ Said("up_to_date") <=> Pending(head, remoteHead) = 0

\* C16: a status run changes no file of the workspace, no HEAD, no
\* remote-tracking ref and no stash entry, and a second status run made
\* right after the first reports the same snapshot.
C16_StatusReadOnlyIdempotent ==
  cmd = "status"
    => /\ RepoAsAtStart
       /\ fs = start.fs /\ root = start.root /\ backup = "none"
       /\ (prev # <<>> /\ pc = "done") => snap = prev[1]

\* two status runs on a tracked workspace whose remote is ahead of the
\* remote-tracking ref, both ended, with equal snapshots
C16_Witness ==
  /\ cmd = "status" /\ prev # <<>> /\ Finished
  /\ snap = prev[1] /\ snap.delta.k = "known" /\ snap.disk.node_modules > 0
  /\ remoteHead > originMain /\ ~isClean(tree)

\* C17: on a root that does not exist, status reports Missing and
\* recommends init, and each of status, update and clean returns normally
\* with exit 0 from its first step: no filesystem change, no VCS call, no
\* prompt.
C17_MissingRootIsHarmless ==
  (start.root = "absent" /\ cmd \in {"status", "update", "clean"})
    => /\ pc \in {StartOf(cmd), "done"}
       /\ calls = <<>> /\ choice = "none" /\ selected = <<>>
       /\ root = "absent" /\ backup = "none" /\ fs = start.fs /\ RepoAsAtStart
       /\ pc = "done"
            => /\ Finished /\ exitCode = 0 /\ Said("no_workspace")
               /\ cmd = "status" => snap.class = "Missing" /\ Said("run_init")

\* status on a missing root, ended
C17_Witness ==
  /\ cmd = "status" /\ start.root = "absent" /\ pc = "done"
  /\ snap.class = "Missing" /\ Said("run_init") /\ exitCode = 0

ErrorPrinted == \E e \in out : Len(e) = 2 /\ e[1] = "error"

\* the operator cancelled at a prompt
Cancelled ==
  \/ Said("cancelled") \/ Said("cancelled_unchanged") \/ Said("cleaning_cancelled")
  \/ Said("operation_cancelled") \/ Said("none_selected")

\* the run ended on a failure that was recovered where it happened: a
\* category that could not be cleaned, a status section that could not be
\* read, an install that failed after the pull
EndedRecovered ==
  \/ cmd = "clean" /\ FailedNames # {}
  \/ cmd = "status" /\ snap.class = "Unreadable"
  \/ cmd = "status" /\ snap.delta.k = "unknown"
  \/ Said("deps_warning") /\ (Said("updated") \/ Said("next_steps"))

\* C18: the process exits non-zero exactly when an error left the selected
\* handler, and then the error message has been printed; every other end,
\* an operator cancellation or a failure recovered on the spot included,
\* exits with 0.
C18_NonZeroExitIffUncaught ==
  /\ pc # "done" => exitCode = -1 /\ ~ErrorPrinted
  /\ pc = "done"
       => /\ exitCode \in {0, 1}
          /\ exitCode # 0 <=> result = "thrown"
          /\ exitCode # 0 <=> ErrorPrinted
          /\ (Cancelled \/ EndedRecovered) => exitCode = 0

\* a pull that ended in a conflict: the error is printed and the exit
\* status is 1
C18_Witness ==
  /\ pc = "done" /\ exitCode = 1 /\ HasCall("pull")
  /\ <<"error", "CONFLICT">> \in out /\ Said("conflict")

\* C20: when init ends with a fatal error from the template clone or from
\* anything after it, the root it had begun to create is removed before the
\* error goes on: the root does not exist unless the cleanup removal itself
\* failed, and the error that goes on is the original one, never the
\* cleanup's.
C20_InitFailureCleansUp ==
  /\ Said("init_failed")
       => /\ pc = "done" /\ result = "thrown" /\ exitCode = 1
          /\ root = "absent" \/ Said("cleanup_failed")
          /\ root = "absent" => ~gitExists /\ ~pkgJson
          /\ <<"error", "cleanup_error">> \notin out
          /\ <<"error", "clone_error">> \in out \/ <<"error", "prompt_error">> \in out
  /\ (HasCall("clone") /\ result = "thrown") => Said("init_failed")

\* the template was downloaded and reported initialized, a prompt then
\* failed, and the fresh root was removed before the error went on
C20_Witness ==
  /\ cmd = "init" /\ Said("initialized") /\ Said("init_failed")
  /\ root = "absent" /\ ~Said("cleanup_failed")
  /\ <<"error", "prompt_error">> \in out /\ exitCode = 1

\* C19: an invocation whose command is help or whose flags include --help
\* runs none of the init, update, clean and status handlers, whatever else
\* is on the command line: it prints the usage and changes nothing.
C19_HelpRunsNoHandler ==
  (args.command = "help" \/ "--help" \in args.flags)
    => /\ cmd \in {"none", "help"}
       /\ calls = <<>> /\ RepoAsAtStart
       /\ root = start.root /\ fs = start.fs /\ backup = "none"
       /\ pc = "done" => Said("usage") /\ exitCode = 0

\* C21: when the npm install after a successful pull fails, update still
\* ends as a success with exit 0 and no error printed, has warned and told
\* how to install by hand, and local HEAD stays at the pulled commit.
C21_InstallFailureNotFatal ==
  (cmd = "update" /\ HasCall("pull") /\ HasCall("install") /\ pc = "done")
    => /\ Finished /\ exitCode = 0 /\ ~ErrorPrinted
       /\ Said("updated")
       /\ Said("deps_updated") \/ (Said("deps_warning") /\ Said("npm_install_hint"))
       /\ head = PullHead(start.head, remoteHead) /\ originMain = remoteHead

\* the remote was ahead, the pull went through and the install failed
C21_Witness ==
  /\ cmd = "update" /\ Finished /\ HasCall("pull") /\ Said("deps_warning")
  /\ Said("updated") /\ head # start.head /\ head.n = remoteHead

VcsCalls == {"status", "stash", "reset", "clean", "fetch", "revparse", "log", "pull"}

\* C22: when a VCS step of update fails, the conflict report is printed
\* exactly when the error message holds the conflict marker; in both cases
\* the failed call is the last call of the run, no install was started, and
\* the error reaches the entry point.
C22_ConflictReportedIffMarker ==
  /\ Said("conflict") => Said("update_failed")
  /\ Said("update_failed")
       => /\ Said("conflict") <=> <<"error", "CONFLICT">> \in out
          /\ ~Said("conflict") <=> <<"error", "generic">> \in out
          /\ pc = "done" /\ result = "thrown" /\ exitCode = 1
          /\ calls # <<>> /\ calls[Len(calls)] \in VcsCalls
          /\ ~HasCall("install") /\ ~Said("updated")

\* a pull failed without the marker after the changes had been stashed:
\* no conflict report, and the stash entry is still there
C22_Witness ==
  /\ Said("update_failed") /\ ~Said("conflict")
  /\ calls[Len(calls)] = "pull" /\ choice = "stash" /\ stash # <<>>
  /\ head = start.head

\* the dirty-state resolution of update has been carried out, and nothing
\* after the fetch has happened yet
Resolved ==
  /\ cmd = "update" /\ choice \in {"stash", "discard"}
  /\ pc \in {"upd_fetch", "upd_compare", "upd_confirm", "upd_pull"}

\* C23: after the dirty-state resolution the working tree has no modified
\* and no untracked entry for either choice and HEAD is where it was; with
\* stash the stash list has exactly one more entry, which holds the
\* suspended changes.
C23_ResolutionLeavesCleanTree ==
  Resolved
    => /\ tree.modified = 0 /\ tree.untracked = 0
       /\ head = start.head
       /\ choice = "stash"
            => /\ Len(stash) = Len(start.stash) + 1
               /\ stash[1].modified = start.tree.modified
               /\ stash[1].staged = start.tree.staged
       /\ choice = "discard" => stash = start.stash

\* C24: when the operator chose stash and update ends without applying
\* (confirmation declined, or already up to date), the stash entry made in
\* the resolution step is still there at the end and the operator has been
\* warned that the changes remain stashed.
C24_RetainedStashIsWarnedOf ==
  (cmd = "update" /\ choice = "stash" /\ Finished
     /\ (HasCall("confirm_no") \/ Said("up_to_date")))
    => /\ Len(stash) = Len(start.stash) + 1
       /\ Said("changes_remain_stashed")

\* C25: in one invocation fetch, pull, the template clone and the clone of
\* the libraries are each invoked at most once, also when they fail.
C25_NoRetry ==
  /\ CountCalls("fetch") <= 1 /\ CountCalls("pull") <= 1
  /\ CountCalls("clone") <= 1 /\ CountCalls("libs_clone") <= 1

\* init whose download of the libraries failed: one template clone, one
\* libraries clone, and init went on to its end
C25_Witness ==
  /\ cmd = "init" /\ Finished /\ Said("libs_warning")
  /\ CountCalls("clone") = 1 /\ CountCalls("libs_clone") = 1

RECURSIVE FileBytes(_)
RECURSIVE FileBytesFrom(_, _)
\* the bytes of the files below a directory, every directory entered once
\* and a link entered never
FileBytes(node) == IF node.t = "dir" THEN FileBytesFrom(node, 1) ELSE 0
FileBytesFrom(node, i) ==
  IF i > Len(node.c) THEN 0
  ELSE (IF node.c[i].t = "dir" THEN FileBytes(node.c[i])
        ELSE IF node.c[i].t = "file" THEN node.c[i].s
        ELSE 0)
       + FileBytesFrom(node, i + 1)

\* C26: getDirectorySize ends on every directory graph, also one with a
\* cycle of symbolic links, and a directory that is reached again while it
\* is being measured counts 0 there: the size is the bytes of the files,
\* each directory entered once.
C26_RevisitCountsZero ==
  (sized.done /\ faults = {}) => sized.size = FileBytes(dir)

RECURSIVE Additive(_, _, _)
RECURSIVE AdditiveFrom(_, _, _, _)
\* the sum in which an entry that meets an error counts 0 and every other
\* entry counts what it holds
Additive(node, sub, bad) ==
  IF node.t # "dir" \/ Fault("readdir", MeasuredDir, sub) \in bad THEN 0
  ELSE AdditiveFrom(node, sub, bad, 1)
AdditiveFrom(node, sub, bad, i) ==
  IF i > Len(node.c) THEN 0
  ELSE (IF Fault("stat", MeasuredDir, Append(sub, i)) \in bad THEN 0
        ELSE IF node.c[i].t = "dir" THEN Additive(node.c[i], Append(sub, i), bad)
        ELSE node.c[i].s)
       + AdditiveFrom(node, sub, bad, i + 1)

\* C27: the size of a missing path is 0, the size of a directory is the sum
\* of its files and of its subdirectories, and a filesystem error at one
\* entry makes that entry alone count 0: the bytes of its siblings stay in
\* the sum.
C27_AdditiveAndTotal ==
  (sized.done /\ dir \in PlainTrees) => sized.size = Additive(dir, <<>>, faults)

\* status has ended after its dependencies section
DependenciesShown ==
  cmd = "status" /\ Finished /\ "dependencies" \in snap.sections

LockAndManifest == pkgJson /\ exists(fs, LockFile)

RECURSIVE hasJsFile(_)
hasJsFile(node) ==
  \E i \in 1..Len(node.c) :
    \/ node.c[i].t = "file" /\ node.c[i].js
    \/ node.c[i].t = "dir" /\ hasJsFile(node.c[i])

\* C29: every project is reported as built exactly when its behavior-pack
\* scripts directory exists and holds at least one .js file at any depth;
\* with an empty or absent scripts directory it is not built.
C29_BuiltIffScriptsHoldJsFile ==
  (cmd = "status" /\ Finished /\ "projects" \in snap.sections)
    => \A p \in Projects :
         <<"built", p>> \in out
           <=> (fs[ScriptsDir(p)].t = "dir" /\ hasJsFile(fs[ScriptsDir(p)]))

\* the commits origin/main has and HEAD lacks
Incoming == {c \in 1..originMain : c > head.n}

CommitLines == {e \in out : Len(e) = 3 /\ e[1] = "commit"}
MoreLines == {e \in out : Len(e) = 2 /\ e[1] = "more_commits"}

\* C30: with local HEAD differing from the remote ref, the log update takes
\* is the whole list of the commits reachable from the remote ref and not
\* from HEAD, in the order of the remote log (newest first); the lines shown
\* are its first min(n, 5) entries, and a count of the others, n - 5, is
\* shown exactly when n > 5.
C30_FirstFiveAndRemainder ==
  (cmd = "update" /\ <<"changes_to_be_applied">> \in out /\ ~HasCall("pull"))
    => LET all == log(head, originMain)
           n == Cardinality(Incoming)
           m == IF n < 5 THEN n ELSE 5
       IN  /\ Len(all) = n
           /\ \A i \in 1..n : all[i] \in Incoming /\ (i > 1 => all[i] < all[i - 1])
           /\ CommitLines = {<<"commit", i, all[i]>> : i \in 1..m}
           /\ MoreLines = (IF n > 5 THEN {<<"more_commits", n - 5>>} ELSE {})

\* seven incoming commits: five lines and '2 more'
C30_Witness ==
  /\ pc = "upd_logged" /\ Cardinality(Incoming) = 7
  /\ Cardinality(CommitLines) = 5 /\ <<"more_commits", 2>> \in out

\* update runs on a workspace whose root exists and holds no .git
NotTrackedUpdate == cmd = "update" /\ start.root # "absent" /\ ~gitExists

InitRestEnded == HasCall("init_install") /\ pc = "done"

\* C32: during init a failing install, a failing download of the libraries
\* and a failing editor launch are each reported with what to do by hand;
\* none of them ends init: the steps after it run, the new root stays and
\* init returns normally, unless a prompt itself fails.
C32_InitFailuresRecoveredLocally ==
  InitRestEnded
    => /\ (Said("deps_warning") => Said("npm_install_hint"))
       /\ (Said("libs_warning") => Said("libs_manual_hint"))
       /\ (Said("launch_failed") => Said("open_manually_hint"))
       /\ \/ <<"error", "prompt_error">> \in out
          \/ /\ result = "returned" /\ exitCode = 0
             /\ root = "fresh" /\ Said("next_steps")

\* the install, the download and the launch all failed, and init returned
\* with the libraries tried after the install and the launch after both
C32_Witness ==
  /\ cmd = "init" /\ Finished /\ root = "fresh" /\ exitCode = 0
  /\ Said("deps_warning") /\ Said("libs_warning") /\ Said("launch_failed")
  /\ Precedes("init_install", "libs_clone") /\ Precedes("libs_clone", "launch")
  /\ Said("next_steps")

\* update ran a confirmed reinitialization through to its last line
ReinitSucceeded ==
  cmd = "update" /\ Finished /\ HasCall("confirm_reinit") /\ Said("reinitialized")

\* C33: after update has run a confirmed reinitialization to its end, the
\* workspace holds VCS metadata, so that the next update finds a root with
\* .git, takes the tracked path and does not offer reinitialization again.
C33_ReinitEnablesUpdates ==
  ReinitSucceeded => (workspaceExists(root) /\ gitExists)

\* the original content of the workspace is whole somewhere on disk
OriginalKept == root = "orig" \/ backup = "full"

\* C34: from the confirmation of a reinitialization to the end of update
\* the original content of the workspace is whole on disk, in the root or
\* in the backup; when initialize fails after the root was deleted and its
\* cleanup removes the new root, the backup is still there, whole.
C34_OriginalKeptThroughReinit ==
  (cmd = "update" /\ HasCall("confirm_reinit"))
    => /\ OriginalKept
       /\ (Said("init_failed") => backup = "full")

\* initialize failed after the root was deleted, its cleanup left no root,
\* and the backup is whole
C34_Witness ==
  /\ cmd = "update" /\ HasCall("confirm_reinit") /\ pc = "done"
  /\ result = "thrown" /\ Said("init_failed") /\ HasCall("clone")
  /\ root = "absent" /\ backup = "full"

\* init was asked for on the command line and found a workspace root
InitOnExisting == cmd = "init" /\ start.root # "absent"

\* C35: init run from the command line removes an existing root only after
\* the operator has confirmed the overwrite; when the operator declines,
\* init removes nothing, downloads nothing, installs nothing, asks nothing
\* more and returns normally, the workspace as it was.
C35_OverwriteOnlyWhenConfirmed ==
  InitOnExisting
    => /\ HasCall("remove_root")
            => (HasCall("confirm_overwrite")
                  /\ Precedes("confirm_overwrite", "remove_root"))
       /\ root # start.root => HasCall("confirm_overwrite")
       /\ ~HasCall("confirm_overwrite") => calls = <<>>
       /\ Said("operation_cancelled")
            => /\ Finished /\ exitCode = 0 /\ calls = <<>>
               /\ root = start.root /\ fs = start.fs /\ backup = "none"

\* the operator declined the overwrite
C35_Witness ==
  /\ InitOnExisting /\ Said("operation_cancelled") /\ Finished
  /\ root = "orig" /\ calls = <<>>

\* what update decides on the repository as it is: after its fetch
\* origin/main is the remote branch main, and it reports 'already up to
\* date' when HEAD is that very commit
UpdateFindsUpToDate ==
  AfterCompare(head, Commit(remoteHead, 0)) = "done"

\* C36: status and update look at the same remote counterpart: on a
\* tracked workspace, whatever branch is checked out, update reports
\* 'already up to date' exactly when status reports 'Up to date', and the
\* branch update fetches, compares and pulls is the counterpart of the
\* current branch.
C36_StatusAndUpdateAgree ==
  (cmd = "status" /\ Finished /\ snap.delta.k = "known")
    => /\ Said("up_to_date") <=> UpdateFindsUpToDate
       /\ UpdateBranch = snap.branch
====
